---- MODULE Spec2Model ----
(***************************************************************************)
(* CSES threat detector (src/demo.py): the track store, the playbook       *)
(* engine, the threat synthesizer and the per-frame orchestrator.          *)
(*                                                                         *)
(* Number representation.  Every float of the program is a small decimal:  *)
(*   - probabilities are kept in units of 0.0001 (prior 0.0001 = 1,        *)
(*     cap 0.999 = 9990, alert threshold 0.75 = 7500);                     *)
(*   - anomaly scores are kept in units of 0.01 (0.95 = 95, 0.7 = 70);     *)
(*   - a speed is kept as the pair [d2, dt] standing for                   *)
(*     sqrt(d2) * PIXELS_TO_METERS / dt, d2 the squared pixel distance and *)
(*     dt the elapsed time, and compared with the threshold by squaring;   *)
(*   - pixel distances are compared through their squares.                 *)
(* Positions and timestamps are integers, as in the simulation feed.       *)
(*                                                                         *)
(* Limit of the decimal representation.  Beliefs are exact products here;  *)
(* the program multiplies IEEE doubles, so a product can differ from the   *)
(* decimal in its last bit.  The one place where that crosses a            *)
(* comparison is a belief of exactly 0.75 (0.0001 * 3 * 50 * 50), which    *)
(* the program may store as 0.7500000000000001 for one order of the        *)
(* factors.  Only direct calls of update_threat_probabilities reach it:    *)
(* process_frame_data gives a vehicle the factors 1, 10, 50, 100 and any   *)
(* other object the factor 3 alone.  Properties that relate the alert      *)
(* list to the stored beliefs, or one stored belief to the next, do not    *)
(* depend on it.                                                           *)
(***************************************************************************)
EXTENDS Integers, Sequences, FiniteSets, TLC

(* ------------------------------ CONFIG -------------------------------- *)
\* CONFIG['PIXELS_TO_METERS'] = 0.1, in tenths
PIXELS_TO_METERS == 1
\* CONFIG['STOP_SPEED_THRESHOLD_MPS'] = 0.5, in tenths
STOP_SPEED_THRESHOLD_MPS == 5
\* CONFIG['ANOMALY_THRESHOLD'] = 0.7, in hundredths
ANOMALY_THRESHOLD == 70
\* CONFIG['ALERT_PROBABILITY_THRESHOLD'] = 0.75, in units of 0.0001
ALERT_PROBABILITY_THRESHOLD == 7500
\* the 0.95 of both sub-scores of calculate_anomaly_score, in hundredths
HIGH_ANOMALY_SCORE == 95
\* the prior 0.0001 of update_threat_probabilities, in units of 0.0001
PRIOR_PROBABILITY == 1
\* the cap 0.999 of _normalize, in units of 0.0001
PROBABILITY_CAP == 9990
\* the 50 pixels of _check_driver_exit
DRIVER_EXIT_PIXELS == 50

\* Python's None, where a record may stand instead
None == [none |-> TRUE]

(* ------------------------- generic helpers ---------------------------- *)
Min2(a, b) == IF a <= b THEN a ELSE b
Max2(a, b) == IF a >= b THEN a ELSE b

\* (ax - bx)^2 + (ay - by)^2: the squared pixel distance of two positions
Dist2(a, b) == (a[1] - b[1]) * (a[1] - b[1]) + (a[2] - b[2]) * (a[2] - b[2])

\* An insertion-ordered Python dict keyed by obj_id is a sequence of
\* entries, each carrying its key in the field obj_id.
Keys(d) == { d[i].obj_id : i \in 1..Len(d) }
KeySeq(d) == [ i \in 1..Len(d) |-> d[i].obj_id ]
IndexOf(d, k) == CHOOSE i \in 1..Len(d) : d[i].obj_id = k
Lookup(d, k) == d[IndexOf(d, k)]

(* ======================= LAYER 2: BaselineModel ======================= *)
normal_road_polygon == << <<0, 220>>, <<1000, 220>>, <<1000, 300>>, <<0, 300>> >>
normal_stopping_polygon == << <<800, 220>>, <<900, 220>>, <<900, 300>>, <<800, 300>> >>

\* One pass of the loop body of _is_point_in_polygon for the edge p1 -> p2:
\* TRUE when `inside` is toggled.  x <= xinters, with
\* xinters = (y - p1y) * (p2x - p1x) / (p2y - p1y) + p1x, is decided by
\* cross-multiplication (exact; p1y # p2y whenever the outer test holds).
EdgeToggles(point, p1, p2) ==
    LET x == point[1]
        y == point[2]
        dy == p2[2] - p1[2]
        lhs == (x - p1[1]) * dy
        rhs == (y - p1[2]) * (p2[1] - p1[1])
    IN  /\ y > Min2(p1[2], p2[2])
        /\ y <= Max2(p1[2], p2[2])
        /\ x <= Max2(p1[1], p2[1])
        /\ \/ p1[1] = p2[1]
           \/ (dy > 0 /\ lhs <= rhs)
           \/ (dy < 0 /\ lhs >= rhs)

\* for i in range(n + 1): p2 = polygon[i % n]; p1 starts as polygon[0] and
\* is the previous p2 afterwards.  `inside` is the parity of the toggles.
_is_point_in_polygon(point, polygon) ==
    LET n == Len(polygon)
        P1(i) == IF i = 0 THEN polygon[1] ELSE polygon[((i - 1) % n) + 1]
        P2(i) == polygon[(i % n) + 1]
        toggles == { i \in 0..n : EdgeToggles(point, P1(i), P2(i)) }
    IN  Cardinality(toggles) % 2 = 1

\* MUTANT of calculate_anomaly_score: the two sub-scores are added
calculate_anomaly_score_Sum(track, is_stopped) ==
    LET current_pos == track.history[Len(track.history)].pos
        location_anomaly ==
            IF ~_is_point_in_polygon(current_pos, normal_road_polygon)
            THEN HIGH_ANOMALY_SCORE ELSE 0
        stop_anomaly ==
            IF is_stopped /\ ~_is_point_in_polygon(current_pos, normal_stopping_polygon)
            THEN HIGH_ANOMALY_SCORE ELSE 0
    IN  location_anomaly + stop_anomaly

\* max(location_anomaly, stop_anomaly) of the track's current position
calculate_anomaly_score(track, is_stopped) ==
    LET current_pos == track.history[Len(track.history)].pos
        location_anomaly ==
            IF ~_is_point_in_polygon(current_pos, normal_road_polygon)
            THEN HIGH_ANOMALY_SCORE ELSE 0
        stop_anomaly ==
            IF is_stopped /\ ~_is_point_in_polygon(current_pos, normal_stopping_polygon)
            THEN HIGH_ANOMALY_SCORE ELSE 0
    IN  Max2(location_anomaly, stop_anomaly)

(* ===================== LAYER 3: BehavioralEngine ====================== *)
\* _load_playbooks: the states of a playbook and, in place of the lambdas,
\* the names of its triggers (decoded by TriggerFires below).
playbooks ==
    [VBIED_DROPOFF |->
        [states |-> <<"APPROACH", "STOPPED_IN_ANOMALOUS_ZONE", "DRIVER_EXIT", "SEPARATION">>,
         triggers |-> <<"stopped_in_anomalous_zone", "driver_exit", "driver_separation">>]]

\* the playbook names in the order of self.playbooks.items()
PlaybookNames == <<"VBIED_DROPOFF">>

\* ['van', 'truck', 'car'] of update_scenarios
ApplicableLabels == {"van", "truck", "car"}

\* The speed sqrt(d2) * PIXELS_TO_METERS / dt against a threshold thr
\* (both in tenths of m/s), by squaring; dt > 0 in every speed pair.
SpeedBelow(speed, thr) ==
    speed.d2 * PIXELS_TO_METERS * PIXELS_TO_METERS < thr * thr * speed.dt * speed.dt
SpeedAbove(speed, thr) ==
    speed.d2 * PIXELS_TO_METERS * PIXELS_TO_METERS > thr * thr * speed.dt * speed.dt

LastPos(track) == track.history[Len(track.history)].pos

\* MUTANT of NewPedestrianNear: the test of the label is missing
NewPedestrianNear_AnyLabel(vehicle_track, all_tracks) ==
    LET vehicle_pos == LastPos(vehicle_track)
        hits == { i \in 1..Len(all_tracks) :
                    /\ Len(all_tracks[i].history) = 1
                    /\ Dist2(vehicle_pos, LastPos(all_tracks[i]))
                         < DRIVER_EXIT_PIXELS * DRIVER_EXIT_PIXELS }
    IN  IF hits = {} THEN 0 ELSE CHOOSE i \in hits : \A j \in hits : i <= j

\* The first track, in the iteration order of all_tracks.values(), that is a
\* pedestrian with exactly one sample within 50 pixels of the vehicle; 0 if none.
NewPedestrianNear(vehicle_track, all_tracks) ==
    LET vehicle_pos == LastPos(vehicle_track)
        hits == { i \in 1..Len(all_tracks) :
                    /\ all_tracks[i].label = "pedestrian"
                    /\ Len(all_tracks[i].history) = 1
                    /\ Dist2(vehicle_pos, LastPos(all_tracks[i]))
                         < DRIVER_EXIT_PIXELS * DRIVER_EXIT_PIXELS }
    IN  IF hits = {} THEN 0 ELSE CHOOSE i \in hits : \A j \in hits : i <= j

\* _check_driver_exit: [fired, scenarios]; on a hit the pedestrian's id is
\* written into the vehicle's scenario before True is returned.
_check_driver_exit(vehicle_track, context, scenarios) ==
    LET i == NewPedestrianNear(vehicle_track, context.all_tracks)
        id == vehicle_track.obj_id
    IN  IF i = 0
        THEN [fired |-> FALSE, scenarios |-> scenarios]
        ELSE [fired |-> TRUE,
              scenarios |->
                [scenarios EXCEPT ![id] =
                    [f \in (DOMAIN scenarios[id]) \cup {"linked_obj_id"} |->
                        IF f = "linked_obj_id"
                        THEN context.all_tracks[i].obj_id
                        ELSE scenarios[id][f]]]]

\* MUTANT of _check_driver_separation: the distance test is turned around
\* (the pedestrian must come closer).
_check_driver_separation_Approaching(vehicle_track, context, scenarios) ==
    LET scenario == scenarios[vehicle_track.obj_id]
    IN  IF "linked_obj_id" \notin DOMAIN scenario
        THEN FALSE
        ELSE LET ped_id == scenario.linked_obj_id
             IN  IF \/ ped_id \notin Keys(context.all_tracks)
                    \/ Len(Lookup(context.all_tracks, ped_id).history) < 2
                 THEN FALSE
                 ELSE LET ped_track == Lookup(context.all_tracks, ped_id)
                          n == Len(ped_track.history)
                          vehicle_pos == LastPos(vehicle_track)
                      IN  /\ Dist2(vehicle_pos, ped_track.history[n].pos)
                                < Dist2(vehicle_pos, ped_track.history[n - 1].pos)
                          /\ SpeedAbove(context.speeds[ped_id], STOP_SPEED_THRESHOLD_MPS)

\* MUTANT of _check_driver_separation: the test of the pedestrian's speed is
\* missing.
_check_driver_separation_NoSpeedTest(vehicle_track, context, scenarios) ==
    LET scenario == scenarios[vehicle_track.obj_id]
    IN  IF "linked_obj_id" \notin DOMAIN scenario
        THEN FALSE
        ELSE LET ped_id == scenario.linked_obj_id
             IN  IF \/ ped_id \notin Keys(context.all_tracks)
                    \/ Len(Lookup(context.all_tracks, ped_id).history) < 2
                 THEN FALSE
                 ELSE LET ped_track == Lookup(context.all_tracks, ped_id)
                          n == Len(ped_track.history)
                          vehicle_pos == LastPos(vehicle_track)
                      IN  Dist2(vehicle_pos, ped_track.history[n].pos)
                              > Dist2(vehicle_pos, ped_track.history[n - 1].pos)

\* _check_driver_separation: a pure read of the scenario, the tracks and the speeds
_check_driver_separation(vehicle_track, context, scenarios) ==
    LET scenario == scenarios[vehicle_track.obj_id]
    IN  IF "linked_obj_id" \notin DOMAIN scenario
        THEN FALSE
        ELSE LET ped_id == scenario.linked_obj_id
             IN  IF \/ ped_id \notin Keys(context.all_tracks)
                    \/ Len(Lookup(context.all_tracks, ped_id).history) < 2
                 THEN FALSE
                 ELSE LET ped_track == Lookup(context.all_tracks, ped_id)
                          n == Len(ped_track.history)
                          ped_pos_curr == ped_track.history[n].pos
                          ped_pos_prev == ped_track.history[n - 1].pos
                          vehicle_pos == LastPos(vehicle_track)
                          dist_curr == Dist2(vehicle_pos, ped_pos_curr)
                          dist_prev == Dist2(vehicle_pos, ped_pos_prev)
                      IN  /\ dist_curr > dist_prev
                          /\ SpeedAbove(context.speeds[ped_id], STOP_SPEED_THRESHOLD_MPS)

\* MUTANT of TriggerFires: the separation trigger looks for a new pedestrian
\* again and links it before it tests the separation.
TriggerFires_Relink(trigger, track, context, scenarios) ==
    CASE trigger = "stopped_in_anomalous_zone" ->
            [fired |-> context.is_stopped /\ context.anomaly_score > ANOMALY_THRESHOLD,
             scenarios |-> scenarios]
      [] trigger = "driver_exit" -> _check_driver_exit(track, context, scenarios)
      [] trigger = "driver_separation" ->
            LET r == _check_driver_exit(track, context, scenarios)
            IN  [fired |-> _check_driver_separation(track, context, r.scenarios),
                 scenarios |-> r.scenarios]

\* playbook['triggers'][current_state_index](track, ctx): [fired, scenarios]
TriggerFires(trigger, track, context, scenarios) ==
    CASE trigger = "stopped_in_anomalous_zone" ->
            [fired |-> context.is_stopped /\ context.anomaly_score > ANOMALY_THRESHOLD,
             scenarios |-> scenarios]
      [] trigger = "driver_exit" -> _check_driver_exit(track, context, scenarios)
      [] trigger = "driver_separation" ->
            [fired |-> _check_driver_separation(track, context, scenarios),
             scenarios |-> scenarios]

\* MUTANT of StartScenario: the test of the label is missing, so any
\* anomalous object without a scenario gets one.
StartScenario_AnyLabel(track, context, scenarios) ==
    IF /\ track.obj_id \notin DOMAIN scenarios
       /\ context.anomaly_score > ANOMALY_THRESHOLD
    THEN [o \in (DOMAIN scenarios) \cup {track.obj_id} |->
            IF o = track.obj_id
            THEN [playbook |-> PlaybookNames[Len(PlaybookNames)], state_index |-> 0]
            ELSE scenarios[o]]
    ELSE scenarios

\* MUTANT of StartScenario: the test "not in self.active_scenarios" is
\* missing, so an anomalous vehicle's scenario is started again.
StartScenario_Restart(track, context, scenarios) ==
    IF /\ context.anomaly_score > ANOMALY_THRESHOLD
       /\ track.label \in ApplicableLabels
    THEN [o \in (DOMAIN scenarios) \cup {track.obj_id} |->
            IF o = track.obj_id
            THEN [playbook |-> PlaybookNames[Len(PlaybookNames)], state_index |-> 0]
            ELSE scenarios[o]]
    ELSE scenarios

\* first half of update_scenarios: start a scenario for an anomalous object
\* of an applicable label that has none (every playbook of the loop assigns).
StartScenario(track, context, scenarios) ==
    IF /\ track.obj_id \notin DOMAIN scenarios
       /\ context.anomaly_score > ANOMALY_THRESHOLD
       /\ track.label \in ApplicableLabels
    THEN [o \in (DOMAIN scenarios) \cup {track.obj_id} |->
            IF o = track.obj_id
            THEN [playbook |-> PlaybookNames[Len(PlaybookNames)], state_index |-> 0]
            ELSE scenarios[o]]
    ELSE scenarios

\* MUTANT of AdvanceScenario: after a trigger has fired the trigger of the
\* state just entered is evaluated in the same call.
AdvanceScenario_Cascade(track, context, scenarios) ==
    LET Step(sc) ==
            IF track.obj_id \notin DOMAIN sc
            THEN sc
            ELSE LET scenario == sc[track.obj_id]
                     playbook == playbooks[scenario.playbook]
                 IN  IF scenario.state_index < Len(playbook.triggers)
                     THEN LET r == TriggerFires(playbook.triggers[scenario.state_index + 1],
                                                track, context, sc)
                          IN  IF r.fired
                              THEN [r.scenarios EXCEPT ![track.obj_id].state_index = @ + 1]
                              ELSE r.scenarios
                     ELSE sc
    IN  Step(Step(scenarios))

\* second half of update_scenarios: evaluate the trigger of the current state
AdvanceScenario(track, context, scenarios) ==
    IF track.obj_id \notin DOMAIN scenarios
    THEN scenarios
    ELSE LET scenario == scenarios[track.obj_id]
             playbook == playbooks[scenario.playbook]
             current_state_index == scenario.state_index
         IN  IF current_state_index < Len(playbook.triggers)
             THEN LET r == TriggerFires(playbook.triggers[current_state_index + 1],
                                        track, context, scenarios)
                  IN  IF r.fired
                      THEN [r.scenarios EXCEPT ![track.obj_id].state_index = @ + 1]
                      ELSE r.scenarios
             ELSE scenarios

update_scenarios(track, context, scenarios) ==
    AdvanceScenario(track, context, StartScenario(track, context, scenarios))

get_matched_playbook_info(obj_id, scenarios) ==
    IF obj_id \in DOMAIN scenarios
    THEN LET scenario == scenarios[obj_id]
         IN  [name |-> scenario.playbook,
              state |-> playbooks[scenario.playbook].states[scenario.state_index + 1]]
    ELSE None

(* ===================== LAYER 4: ThreatSynthesizer ===================== *)
\* self.likelihoods
likelihoods ==
    [VBIED_DROPOFF |->
        [high_anomaly |-> 3,
         state_STOPPED_IN_ANOMALOUS_ZONE |-> 10,
         state_DRIVER_EXIT |-> 50,
         state_SEPARATION |-> 100]]

\* the threat kinds of {'VBIED_DROPOFF': 0.0001}, in dict order
ThreatKinds == <<"VBIED_DROPOFF">>

\* self.likelihoods[threat_name].get(f'state_{state_name}', 1.0)
StateLikelihood(threat_name, state_name) ==
    LET key == "state_" \o state_name
        table == likelihoods[threat_name]
    IN  IF key \in DOMAIN table THEN table[key] ELSE 1

\* MUTANT of EvidenceMultiplier: "elif" is "if", so the generic-anomaly
\* multiplier is applied on top of the state's
EvidenceMultiplier_AnomalyStacks(evidence) ==
    (IF evidence.playbook_info # None
     THEN IF evidence.playbook_info.name \in DOMAIN likelihoods
          THEN StateLikelihood(evidence.playbook_info.name, evidence.playbook_info.state)
          ELSE 1
     ELSE 1)
    * (IF evidence.anomaly_score > ANOMALY_THRESHOLD
       THEN likelihoods["VBIED_DROPOFF"].high_anomaly
       ELSE 1)

\* the multiplier update_threat_probabilities derives from the evidence
EvidenceMultiplier(evidence) ==
    IF evidence.playbook_info # None
    THEN IF evidence.playbook_info.name \in DOMAIN likelihoods
         THEN StateLikelihood(evidence.playbook_info.name, evidence.playbook_info.state)
         ELSE 1
    ELSE IF evidence.anomaly_score > ANOMALY_THRESHOLD
         THEN likelihoods["VBIED_DROPOFF"].high_anomaly
         ELSE 1

\* MUTANT of _normalize: the cap is 1.0 instead of 0.999
_normalize_AtOne(prob) == IF prob > 10000 THEN 10000 ELSE prob

\* _normalize on one probability
_normalize(prob) == IF prob > PROBABILITY_CAP THEN PROBABILITY_CAP ELSE prob

update_threat_probabilities(tp, obj_id, evidence) ==
    LET tp1 == IF obj_id \in Keys(tp) THEN tp
               ELSE Append(tp, [obj_id |-> obj_id,
                                threats |-> [VBIED_DROPOFF |-> PRIOR_PROBABILITY]])
        multiplier == EvidenceMultiplier(evidence)
        i == IndexOf(tp1, obj_id)
    IN  [tp1 EXCEPT ![i].threats =
            [t \in DOMAIN @ |->
                _normalize(IF t \in DOMAIN likelihoods THEN @[t] * multiplier ELSE @[t])]]

\* MUTANT of SortedInsert: an alert goes in front of the alerts of its
\* own probability (the order of a sort followed by a reversal).
SortedInsert_Unstable(sorted, a) ==
    LET k == Cardinality({ i \in 1..Len(sorted) : sorted[i].probability > a.probability })
    IN  SubSeq(sorted, 1, k) \o <<a>> \o SubSeq(sorted, k + 1, Len(sorted))

\* sorted(..., reverse=True) is stable: an alert goes behind every alert
\* already placed whose probability is at least its own.
SortedInsert(sorted, a) ==
    LET k == Cardinality({ i \in 1..Len(sorted) : sorted[i].probability >= a.probability })
    IN  SubSeq(sorted, 1, k) \o <<a>> \o SubSeq(sorted, k + 1, Len(sorted))

RECURSIVE SortByProbability(_)
SortByProbability(alerts) ==
    IF alerts = <<>> THEN <<>>
    ELSE SortedInsert(SortByProbability(SubSeq(alerts, 1, Len(alerts) - 1)),
                      alerts[Len(alerts)])

\* the alerts list before sorting: table order, then threat order
RECURSIVE CollectAlerts(_)
CollectAlerts(tp) ==
    IF tp = <<>> THEN <<>>
    ELSE LET e == tp[Len(tp)]
             mine == SelectSeq([k \in 1..Len(ThreatKinds) |->
                                   [obj_id |-> e.obj_id,
                                    threat_type |-> ThreatKinds[k],
                                    probability |-> e.threats[ThreatKinds[k]]]],
                               LAMBDA a : a.probability > ALERT_PROBABILITY_THRESHOLD)
         IN  CollectAlerts(SubSeq(tp, 1, Len(tp) - 1)) \o mine

get_prioritized_alerts(tp) == SortByProbability(CollectAlerts(tp))

(* ========================= ThreatDetector ============================= *)
\* (x + w // 2, y + h // 2)
_get_center(bbox) == <<bbox[1] + bbox[3] \div 2, bbox[2] + bbox[4] \div 2>>

\* A detection is a Python dict: a record that may lack a key.  The loop
\* body of _update_tracks raises KeyError on det['obj_id'], on det['bbox'],
\* or, for an id not yet tracked, on det['label'].
DetectionRaises(tracked, det) ==
    \/ "obj_id" \notin DOMAIN det
    \/ "bbox" \notin DOMAIN det
    \/ (det.obj_id \notin Keys(tracked) /\ "label" \notin DOMAIN det)

\* the loop body of _update_tracks for a detection that does not raise
IngestDetection(tracked, det, current_time) ==
    LET obj_id == det.obj_id
        center_pos == _get_center(det.bbox)
        t1 == IF obj_id \in Keys(tracked) THEN tracked
              ELSE Append(tracked, [obj_id |-> obj_id, label |-> det.label,
                                    history |-> <<>>, last_updated |-> current_time])
        i == IndexOf(t1, obj_id)
    IN  [t1 EXCEPT ![i].history = Append(@, [pos |-> center_pos, time |-> current_time]),
                   ![i].last_updated = current_time]

\* _update_tracks: [tracked, raised].  An exception leaves the loop at the
\* offending detection: those before it are ingested, those after it are not.
RECURSIVE _update_tracks(_, _, _)
_update_tracks(tracked, detections, current_time) ==
    IF detections = <<>>
    THEN [tracked |-> tracked, raised |-> FALSE]
    ELSE IF DetectionRaises(tracked, Head(detections))
         THEN [tracked |-> tracked, raised |-> TRUE]
         ELSE _update_tracks(IngestDetection(tracked, Head(detections), current_time),
                             Tail(detections), current_time)

ZeroSpeed == [d2 |-> 0, dt |-> 1]

\* MUTANT of _calculate_speed_mps: the test "time_s > 0" is missing
_calculate_speed_mps_Unguarded(track) ==
    IF Len(track.history) < 2 THEN ZeroSpeed
    ELSE LET p1 == track.history[Len(track.history) - 1]
             p2 == track.history[Len(track.history)]
         IN  [d2 |-> Dist2(p2.pos, p1.pos), dt |-> p2.time - p1.time]

\* dist_m / time_s if time_s > 0 else 0.0, and 0.0 with fewer than two samples
_calculate_speed_mps(track) ==
    IF Len(track.history) < 2 THEN ZeroSpeed
    ELSE LET p1 == track.history[Len(track.history) - 1]
             p2 == track.history[Len(track.history)]
             time_s == p2.time - p1.time
         IN  IF time_s > 0 THEN [d2 |-> Dist2(p2.pos, p1.pos), dt |-> time_s]
             ELSE ZeroSpeed

\* context['speeds']
Speeds(tracked) ==
    [ o \in Keys(tracked) |-> _calculate_speed_mps(Lookup(tracked, o)) ]

\* MUTANT of ProcessObject: a track that the frame did not update (its
\* last_updated is older than the newest of the store) is passed over.
ProcessObject_SkipUndetected(track, tracked, speeds, st) ==
    IF \E i \in 1..Len(tracked) : tracked[i].last_updated > track.last_updated
    THEN st
    ELSE LET is_stopped == SpeedBelow(speeds[track.obj_id], STOP_SPEED_THRESHOLD_MPS)
             anomaly_score == calculate_anomaly_score(track, is_stopped)
             context == [all_tracks |-> tracked, speeds |-> speeds,
                         anomaly_score |-> anomaly_score, is_stopped |-> is_stopped]
         IN  CHOOSE result \in
                 { [scenarios |-> scenarios,
                    tp |-> update_threat_probabilities(st.tp, track.obj_id,
                             [anomaly_score |-> context.anomaly_score,
                              playbook_info |-> get_matched_playbook_info(track.obj_id, scenarios)])] :
                   scenarios \in { update_scenarios(track, context, st.scenarios) } } : TRUE

\* MUTANT of ProcessObject: an object without a scenario of its own is given
\* the playbook_info of a scenario that links it, as the scenario table
\* stands when the object's turn comes.
ProcessObject_LinkedInfo(track, tracked, speeds, st) ==
    LET is_stopped == SpeedBelow(speeds[track.obj_id], STOP_SPEED_THRESHOLD_MPS)
        anomaly_score == calculate_anomaly_score(track, is_stopped)
        context == [all_tracks |-> tracked, speeds |-> speeds,
                    anomaly_score |-> anomaly_score, is_stopped |-> is_stopped]
        Info(scenarios) ==
            LET linking == { o \in DOMAIN scenarios :
                               /\ "linked_obj_id" \in DOMAIN scenarios[o]
                               /\ scenarios[o].linked_obj_id = track.obj_id }
            IN  IF track.obj_id \in DOMAIN scenarios \/ linking = {}
                THEN get_matched_playbook_info(track.obj_id, scenarios)
                ELSE get_matched_playbook_info(CHOOSE o \in linking : TRUE, scenarios)
    IN  CHOOSE result \in
            { [scenarios |-> scenarios,
               tp |-> update_threat_probabilities(st.tp, track.obj_id,
                        [anomaly_score |-> context.anomaly_score,
                         playbook_info |-> Info(scenarios)])] :
              scenarios \in { update_scenarios(track, context, st.scenarios) } } : TRUE

\* The body of the loop "for obj_id, track in self.tracked_objects.items()"
\* for one track: layers 2, 3 and 4; st is [scenarios, tp].
\* (CHOOSE over a one-element set binds an intermediate result by value, so
\* that it is computed once.)
ProcessObject(track, tracked, speeds, st) ==
    LET is_stopped == SpeedBelow(speeds[track.obj_id], STOP_SPEED_THRESHOLD_MPS)
        anomaly_score == calculate_anomaly_score(track, is_stopped)
        context == [all_tracks |-> tracked, speeds |-> speeds,
                    anomaly_score |-> anomaly_score, is_stopped |-> is_stopped]
    IN  CHOOSE result \in
            { [scenarios |-> scenarios,
               tp |-> update_threat_probabilities(st.tp, track.obj_id,
                        [anomaly_score |-> context.anomaly_score,
                         playbook_info |-> get_matched_playbook_info(track.obj_id, scenarios)])] :
              scenarios \in { update_scenarios(track, context, st.scenarios) } } : TRUE

\* the loop over the first n tracks, in the order of the track store
RECURSIVE ProcessObjects(_, _, _, _)
ProcessObjects(n, tracked, speeds, st) ==
    IF n = 0 THEN st
    ELSE CHOOSE result \in
            { ProcessObject(tracked[n], tracked, speeds, before) :
              before \in { ProcessObjects(n - 1, tracked, speeds, st) } } : TRUE

\* the loop taken in another order of the tracks: order is a sequence of
\* positions of the track store
RECURSIVE ProcessObjectsInOrder(_, _, _, _)
ProcessObjectsInOrder(order, tracked, speeds, st) ==
    IF order = <<>> THEN st
    ELSE CHOOSE result \in
            { ProcessObject(tracked[order[Len(order)]], tracked, speeds, before) :
              before \in { ProcessObjectsInOrder(SubSeq(order, 1, Len(order) - 1),
                                                 tracked, speeds, st) } } : TRUE

\* every order of n tracks
Orders(n) == { p \in [1..n -> 1..n] : \A i, j \in 1..n : p[i] = p[j] => i = j }

\* The part of process_frame_data after _update_tracks: the context is
\* built once, every track is processed and the alerts are read.
ProcessWithSpeeds(tracked, speeds, scenarios, tp) ==
    CHOOSE result \in
        { [tracked |-> tracked, scenarios |-> st.scenarios, tp |-> st.tp,
           raised |-> FALSE, alerts |-> get_prioritized_alerts(st.tp),
           speeds |-> speeds] :
          st \in { ProcessObjects(Len(tracked), tracked, speeds,
                                  [scenarios |-> scenarios, tp |-> tp]) } } : TRUE

ProcessTracks(tracked, scenarios, tp) ==
    CHOOSE result \in
        { ProcessWithSpeeds(tracked, speeds, scenarios, tp) :
          speeds \in { Speeds(tracked) } } : TRUE

\* process_frame_data: the state after the call and what it returned.  When
\* _update_tracks raises, the exception leaves process_frame_data before the
\* context is built: the tracks keep what was ingested, nothing else is touched.
process_frame_data(tracked, scenarios, tp, frame_data) ==
    CHOOSE result \in
        { IF u.raised
          THEN [tracked |-> u.tracked, scenarios |-> scenarios, tp |-> tp,
                raised |-> TRUE, alerts |-> <<>>, speeds |-> <<>>]
          ELSE ProcessTracks(u.tracked, scenarios, tp) :
          u \in { _update_tracks(tracked, frame_data.detections, frame_data.timestamp) } } : TRUE

(* ============================== State ================================= *)
VARIABLES
    tracked_objects,       \* ThreatDetector.tracked_objects, in dict order
    active_scenarios,      \* BehavioralEngine.active_scenarios: obj_id -> scenario
    threat_probabilities,  \* ThreatSynthesizer.threat_probabilities, in dict order
    context_speeds,        \* context['speeds'] of the last frame that built a context
    alerts,                \* the list the last call returned
    outcome,               \* the last call: "init", "returned", "raised", "updated", "queried", "scored"
    last_frame,            \* the frame_data of the last process_frame_data call
    feed_time,             \* the timestamp of the last frame the caller sent
    n_frames,              \* frames the caller sent on its own
    sim_index,             \* frames of simulation_api_feed replayed so far
    direct_call            \* the arguments (and result) of the last call made to a layer on its own

vars == <<tracked_objects, active_scenarios, threat_probabilities, context_speeds,
          alerts, outcome, last_frame, feed_time, n_frames, sim_index, direct_call>>

(* ------------------------------ inputs -------------------------------- *)
\* frames a caller sends on its own in one run of Spec
MaxFrames == 3
\* frames of one run of SpecRoad
MaxRoadFrames == 4

\* the feed of the __main__ block
simulation_api_feed == <<
    [timestamp |-> 1, detections |-> <<[obj_id |-> 101, label |-> "van", bbox |-> <<100, 240, 60, 50>>]>>],
    [timestamp |-> 2, detections |-> <<[obj_id |-> 101, label |-> "van", bbox |-> <<250, 245, 60, 50>>]>>],
    [timestamp |-> 3, detections |-> <<[obj_id |-> 101, label |-> "van", bbox |-> <<400, 350, 60, 50>>]>>],
    [timestamp |-> 4, detections |-> <<[obj_id |-> 101, label |-> "van", bbox |-> <<400, 350, 60, 50>>]>>],
    [timestamp |-> 5, detections |-> <<[obj_id |-> 101, label |-> "van", bbox |-> <<400, 350, 60, 50>>],
                                       [obj_id |-> 202, label |-> "pedestrian", bbox |-> <<450, 350, 20, 40>>]>>],
    [timestamp |-> 6, detections |-> <<[obj_id |-> 101, label |-> "van", bbox |-> <<400, 350, 60, 50>>],
                                       [obj_id |-> 202, label |-> "pedestrian", bbox |-> <<480, 355, 20, 40>>]>>],
    [timestamp |-> 7, detections |-> <<[obj_id |-> 101, label |-> "van", bbox |-> <<400, 350, 60, 50>>],
                                       [obj_id |-> 202, label |-> "pedestrian", bbox |-> <<510, 360, 20, 40>>]>> ] >>

\* The van of the simulation at three of its places: in the road (centre
\* (130, 265)), off the road where it stops (centre (430, 375)), and in the
\* normal stopping region (centre (850, 265)).
VanInRoad == [obj_id |-> 101, label |-> "van", bbox |-> <<100, 240, 60, 50>>]
VanOffRoad == [obj_id |-> 101, label |-> "van", bbox |-> <<400, 350, 60, 50>>]
VanInStopZone == [obj_id |-> 101, label |-> "van", bbox |-> <<820, 240, 60, 50>>]

\* Pedestrian 202 about 30 pixels (centre (460, 370)) and 60 pixels (centre
\* (490, 375)) from the off-road spot, and a second pedestrian, 203, at the
\* nearer place.
PedNear == [obj_id |-> 202, label |-> "pedestrian", bbox |-> <<450, 350, 20, 40>>]
PedAway == [obj_id |-> 202, label |-> "pedestrian", bbox |-> <<480, 355, 20, 40>>]
SecondPedNear == [obj_id |-> 203, label |-> "pedestrian", bbox |-> <<450, 350, 20, 40>>]

\* a car that stops at the van's off-road spot
CarOffRoad == [obj_id |-> 102, label |-> "car", bbox |-> <<400, 350, 60, 50>>]

Detections ==
    {VanInRoad, VanOffRoad, VanInStopZone, CarOffRoad, PedNear, PedAway, SecondPedNear}

\* The detection lists of an in-order frame: none, one detection, the van
\* with its driver (in either order), two new pedestrians at once, and the
\* same pedestrian detected twice in one frame.
FrameDetections ==
    { <<>> } \cup { <<d>> : d \in Detections }
             \cup { <<VanOffRoad, PedNear>>, <<PedNear, VanOffRoad>>,
                    <<PedNear, SecondPedNear>>, <<PedNear, PedAway>> }

\* A frame that arrives late carries the timestamp of the frame before it,
\* or an earlier one.
LateDetections == {VanInRoad, PedAway}
LateSteps == {-1, 0}

\* Detections that lack a key: the obj_id, the bbox, or the label.
NoObjId == [label |-> "van", bbox |-> <<400, 350, 60, 50>>]
NoBBox == [obj_id |-> 101, label |-> "van"]
NoLabel == [obj_id |-> 203, bbox |-> <<450, 350, 20, 40>>]

\* the detection lists of a frame with one such detection
MalformedFrameDetections ==
    { <<VanOffRoad, NoObjId>>, <<NoBBox, PedNear>>, <<PedNear, NoLabel>>, <<NoLabel>> }

\* SpecRoad: a van that keeps driving in the road (centres (130, 265),
\* (280, 270) and, in the stopping region, (850, 265)), and a pedestrian
\* (centre (610, 260)) more than 50 pixels from each of them.
VanFurtherInRoad == [obj_id |-> 101, label |-> "van", bbox |-> <<250, 245, 60, 50>>]
PedFarAway == [obj_id |-> 202, label |-> "pedestrian", bbox |-> <<600, 240, 20, 40>>]
RoadVanDetections == {VanInRoad, VanFurtherInRoad, VanInStopZone}
RoadFrameDetections ==
    { <<>>, <<PedFarAway>> } \cup { <<d>> : d \in RoadVanDetections }
                            \cup { <<d, PedFarAway>> : d \in RoadVanDetections }

\* SpecSynth: direct calls of update_threat_probabilities
SynthObjIds == {101, 102}
Evidence ==
    { [anomaly_score |-> a, playbook_info |-> i] :
        a \in {0, HIGH_ANOMALY_SCORE},
        i \in {None}
              \cup { [name |-> "VBIED_DROPOFF", state |-> playbooks.VBIED_DROPOFF.states[k]] :
                        k \in 1..Len(playbooks.VBIED_DROPOFF.states) }
              \cup { [name |-> "LOITERING", state |-> "APPROACH"] } }

\* SpecScore: positions around and on the borders of the two regions (the
\* road is x in 0..1000, y in 220..300; the stopping region x in 800..900 of it)
ScoreXs == {-5, 0, 400, 799, 800, 850, 900, 1000, 1005}
ScoreYs == {215, 220, 260, 300, 305, 375}
ScorePositions == { <<x, y>> : x \in ScoreXs, y \in ScoreYs }

\* SpecLikelihood: belief tables a run can have built, by their beliefs:
\* the prior, products of the multipliers below and at the alert threshold,
\* products that the next multiplier takes to the cap or over it, and the cap
BeliefSamples == {1, 3, 10, 30, 50, 100, 500, 900, 1000, 2700, 5000, 7500, 9990}
BeliefEntry(obj_id, belief) == [obj_id |-> obj_id, threats |-> [VBIED_DROPOFF |-> belief]]
BeliefTables ==
    { <<>> } \cup { <<BeliefEntry(101, b)>> : b \in BeliefSamples }
             \cup { <<BeliefEntry(101, 100), BeliefEntry(102, b)>> : b \in BeliefSamples }

(* ------------------------------ actions ------------------------------- *)
Init ==
    /\ tracked_objects = <<>>
    /\ active_scenarios = [o \in {} |-> None]
    /\ threat_probabilities = <<>>
    /\ context_speeds = [o \in {} |-> ZeroSpeed]
    /\ alerts = <<>>
    /\ outcome = "init"
    /\ last_frame = [timestamp |-> 0, detections |-> <<>>]
    /\ feed_time = 0
    /\ n_frames = 0
    /\ sim_index = 0
    /\ direct_call = [op |-> "none"]

\* MUTANT of Call: the call reports only the alerts whose belief it changed
Call_AlertOnChange(frame_data) ==
    \E r \in { process_frame_data(tracked_objects, active_scenarios,
                                  threat_probabilities, frame_data) } :
        /\ tracked_objects' = r.tracked
        /\ active_scenarios' = r.scenarios
        /\ threat_probabilities' = r.tp
        /\ context_speeds' = IF r.raised THEN context_speeds ELSE r.speeds
        /\ alerts' = IF r.raised THEN alerts
                     ELSE SelectSeq(r.alerts,
                            LAMBDA a : \/ a.obj_id \notin Keys(threat_probabilities)
                                       \/ Lookup(threat_probabilities, a.obj_id).threats[a.threat_type]
                                            # a.probability)
        /\ outcome' = IF r.raised THEN "raised" ELSE "returned"
        /\ last_frame' = frame_data
        /\ feed_time' = frame_data.timestamp
        /\ UNCHANGED direct_call

\* alerts = detector.process_frame_data(frame_data); a caller that catches
\* the exception of a malformed frame keeps the detector and goes on.
Call(frame_data) ==
    \E r \in { process_frame_data(tracked_objects, active_scenarios,
                                  threat_probabilities, frame_data) } :
        /\ tracked_objects' = r.tracked
        /\ active_scenarios' = r.scenarios
        /\ threat_probabilities' = r.tp
        /\ context_speeds' = IF r.raised THEN context_speeds ELSE r.speeds
        /\ alerts' = IF r.raised THEN alerts ELSE r.alerts
        /\ outcome' = IF r.raised THEN "raised" ELSE "returned"
        /\ last_frame' = frame_data
        /\ feed_time' = frame_data.timestamp
        /\ UNCHANGED direct_call

\* one turn of "for frame_data in simulation_api_feed" on a fresh detector
SimulationStep ==
    /\ n_frames = 0
    /\ sim_index < Len(simulation_api_feed)
    /\ Call(simulation_api_feed[sim_index + 1])
    /\ sim_index' = sim_index + 1
    /\ UNCHANGED n_frames

\* The caller's own frames start on a fresh detector or follow the whole
\* simulation feed.
CallerMaySend ==
    /\ sim_index \in {0, Len(simulation_api_feed)}
    /\ n_frames < MaxFrames

\* the caller sends the next frame of its stream
ProcessFrame ==
    /\ CallerMaySend
    /\ \E dets \in FrameDetections :
          Call([timestamp |-> feed_time + 1, detections |-> dets])
    /\ n_frames' = n_frames + 1
    /\ UNCHANGED sim_index

\* the caller sends a frame that is not newer than the one before it
ProcessLateFrame ==
    /\ CallerMaySend
    /\ \E d \in LateDetections, step \in LateSteps :
          Call([timestamp |-> feed_time + step, detections |-> <<d>>])
    /\ n_frames' = n_frames + 1
    /\ UNCHANGED sim_index

\* the caller sends a frame with a detection that lacks a key
ProcessMalformedFrame ==
    /\ CallerMaySend
    /\ \E dets \in MalformedFrameDetections :
          Call([timestamp |-> feed_time + 1, detections |-> dets])
    /\ n_frames' = n_frames + 1
    /\ UNCHANGED sim_index

Next == SimulationStep \/ ProcessFrame \/ ProcessLateFrame \/ ProcessMalformedFrame

Spec == Init /\ [][Next]_vars

\* SpecRoad: a stream in which a van drives along the road
ProcessRoadFrame ==
    /\ n_frames < MaxRoadFrames
    /\ \E dets \in RoadFrameDetections :
          Call([timestamp |-> feed_time + 1, detections |-> dets])
    /\ n_frames' = n_frames + 1
    /\ UNCHANGED sim_index

NextRoad == ProcessRoadFrame

SpecRoad == Init /\ [][NextRoad]_vars

\* SpecSynth: the ThreatSynthesizer called on its own
UpdateThreat ==
    /\ \E obj_id \in SynthObjIds, evidence \in Evidence :
          threat_probabilities' =
              update_threat_probabilities(threat_probabilities, obj_id, evidence)
    /\ outcome' = "updated"
    /\ UNCHANGED <<tracked_objects, active_scenarios, context_speeds, alerts,
                   last_frame, feed_time, n_frames, sim_index, direct_call>>

\* MUTANT of GetAlerts: the alerts that are reported are taken out of the table
GetAlerts_Draining ==
    /\ alerts' = get_prioritized_alerts(threat_probabilities)
    /\ threat_probabilities' =
          SelectSeq(threat_probabilities,
                    LAMBDA e : e.threats.VBIED_DROPOFF <= ALERT_PROBABILITY_THRESHOLD)
    /\ outcome' = "queried"
    /\ UNCHANGED <<tracked_objects, active_scenarios, context_speeds, last_frame,
                   feed_time, n_frames, sim_index, direct_call>>

\* alerts = synthesizer.get_prioritized_alerts()
GetAlerts ==
    /\ alerts' = get_prioritized_alerts(threat_probabilities)
    /\ outcome' = "queried"
    /\ UNCHANGED <<tracked_objects, active_scenarios, threat_probabilities,
                   context_speeds, last_frame, feed_time, n_frames, sim_index,
                   direct_call>>

NextSynth == UpdateThreat \/ GetAlerts

SpecSynth == Init /\ [][NextSynth]_vars

\* SpecScore: the BaselineModel called on its own, on a track whose current
\* position is pos
ScorePosition ==
    /\ \E pos \in ScorePositions, is_stopped \in BOOLEAN :
          LET track == [obj_id |-> 101, label |-> "van", last_updated |-> 1,
                        history |-> <<[pos |-> pos, time |-> 1]>>]
          IN  direct_call' = [op |-> "calculate_anomaly_score",
                              track |-> track, is_stopped |-> is_stopped,
                              result |-> calculate_anomaly_score(track, is_stopped)]
    /\ outcome' = "scored"
    /\ UNCHANGED <<tracked_objects, active_scenarios, threat_probabilities,
                   context_speeds, alerts, last_frame, feed_time, n_frames, sim_index>>

NextScore == ScorePosition

SpecScore == Init /\ [][NextScore]_vars

\* SpecLikelihood: one call of update_threat_probabilities on a belief table
InitLikelihood ==
    /\ tracked_objects = <<>>
    /\ active_scenarios = [o \in {} |-> None]
    /\ threat_probabilities \in BeliefTables
    /\ context_speeds = [o \in {} |-> ZeroSpeed]
    /\ alerts = <<>>
    /\ outcome = "init"
    /\ last_frame = [timestamp |-> 0, detections |-> <<>>]
    /\ feed_time = 0
    /\ n_frames = 0
    /\ sim_index = 0
    /\ direct_call = [op |-> "none"]

ApplyEvidence ==
    /\ direct_call.op = "none"
    /\ \E obj_id \in SynthObjIds, evidence \in Evidence :
          /\ threat_probabilities' =
                update_threat_probabilities(threat_probabilities, obj_id, evidence)
          /\ direct_call' = [op |-> "update_threat_probabilities",
                             obj_id |-> obj_id, evidence |-> evidence]
    /\ outcome' = "updated"
    /\ UNCHANGED <<tracked_objects, active_scenarios, context_speeds, alerts,
                   last_frame, feed_time, n_frames, sim_index>>

NextLikelihood == ApplyEvidence

SpecLikelihood == InitLikelihood /\ [][NextLikelihood]_vars

(* ======================= views of the state =========================== *)
HasScenario(o) == o \in DOMAIN active_scenarios
StateIndex(o) == active_scenarios[o].state_index
StateLabel(o) == get_matched_playbook_info(o, active_scenarios).state
HasLink(scenario) == "linked_obj_id" \in DOMAIN scenario
Belief(tp, o) == Lookup(tp, o).threats.VBIED_DROPOFF
AlertIds == { alerts[i].obj_id : i \in 1..Len(alerts) }
AlertPairs(list) == { <<list[i].obj_id, list[i].threat_type>> : i \in 1..Len(list) }
\* the whole simulation feed up to its k-th frame, and nothing else, was processed
ReferenceFeedAt(k) == sim_index = k /\ n_frames = 0
InRoad(pos) == _is_point_in_polygon(pos, normal_road_polygon)
InStopZone(pos) == _is_point_in_polygon(pos, normal_stopping_polygon)
WellFormed(det) == {"obj_id", "label", "bbox"} \subseteq DOMAIN det
\* the elapsed time between the last two samples of a track with two or more
Elapsed(track) ==
    track.history[Len(track.history)].time - track.history[Len(track.history) - 1].time

\* is_stopped and anomaly_score as the loop of process_frame_data computes
\* them for a track from the speeds of the frame
IsStoppedIn(speeds, track) == SpeedBelow(speeds[track.obj_id], STOP_SPEED_THRESHOLD_MPS)
AnomalyScoreIn(speeds, track) == calculate_anomaly_score(track, IsStoppedIn(speeds, track))
\* the obj_ids of the detections of a frame that carry one
DetectedIds(frame_data) ==
    { frame_data.detections[k].obj_id :
        k \in { j \in 1..Len(frame_data.detections) :
                   "obj_id" \in DOMAIN frame_data.detections[j] } }

(* ============================== claims ================================ *)

\* C1: after the simulation feed has been processed up to its frame at t=7,
\* the scenario of vehicle 101 is in state SEPARATION with linked object 202,
\* its VBIED_DROPOFF belief is above the alert threshold, and 101 is in the
\* alert list that frame returned.
C1_ReferenceFeedAlert ==
    ReferenceFeedAt(7) =>
        /\ outcome = "returned"
        /\ HasScenario(101)
        /\ StateLabel(101) = "SEPARATION"
        /\ HasLink(active_scenarios[101])
        /\ active_scenarios[101].linked_obj_id = 202
        /\ Belief(threat_probabilities, 101) > ALERT_PROBABILITY_THRESHOLD
        /\ 101 \in AlertIds

C1_Witness ==
    /\ ReferenceFeedAt(7)
    /\ last_frame = simulation_api_feed[7]
    /\ Len(Lookup(tracked_objects, 202).history) = 3

\* C2 (as claimed): a vehicle that is observed in every frame of the stream,
\* is inside the normal road region at every observation, moves faster than the stop-speed threshold between all of its
\* consecutive observations, and never has a pedestrian within 50 pixels of
\* any of its positions, is never in the alert list.
CalmVehicle(track) ==
    /\ track.label \in ApplicableLabels
    /\ Len(track.history) = n_frames
    /\ \A k \in 1..Len(track.history) : InRoad(track.history[k].pos)
    /\ \A k \in 1..(Len(track.history) - 1) :
          LET d2 == Dist2(track.history[k + 1].pos, track.history[k].pos)
              dt == track.history[k + 1].time - track.history[k].time
          IN  dt > 0 /\ SpeedAbove([d2 |-> d2, dt |-> dt], STOP_SPEED_THRESHOLD_MPS)
    /\ \A i \in 1..Len(tracked_objects) :
          tracked_objects[i].label = "pedestrian" =>
              \A k \in 1..Len(track.history), m \in 1..Len(tracked_objects[i].history) :
                  Dist2(track.history[k].pos, tracked_objects[i].history[m].pos)
                      >= DRIVER_EXIT_PIXELS * DRIVER_EXIT_PIXELS

C2_CalmVehicleNeverAlerts ==
    \A i \in 1..Len(tracked_objects) :
        CalmVehicle(tracked_objects[i]) => tracked_objects[i].obj_id \notin AlertIds

\* C3 (as claimed): in the simulation feed the scenario of vehicle 101 is not
\* yet in STOPPED_IN_ANOMALOUS_ZONE after t=1 and t=2, is in
\* STOPPED_IN_ANOMALOUS_ZONE after t=4, in DRIVER_EXIT with linked object 202
\* after t=5, and in SEPARATION after t=7.
C3_ReferenceFeedStates ==
    /\ (ReferenceFeedAt(1) \/ ReferenceFeedAt(2)) =>
          (~HasScenario(101) \/ StateLabel(101) = "APPROACH")
    /\ ReferenceFeedAt(4) =>
          (HasScenario(101) /\ StateLabel(101) = "STOPPED_IN_ANOMALOUS_ZONE")
    /\ ReferenceFeedAt(5) =>
          /\ HasScenario(101)
          /\ StateLabel(101) = "DRIVER_EXIT"
          /\ HasLink(active_scenarios[101])
          /\ active_scenarios[101].linked_obj_id = 202
    /\ ReferenceFeedAt(7) => (HasScenario(101) /\ StateLabel(101) = "SEPARATION")

\* C4: a scenario, once it exists, is never removed, its state_index never
\* decreases from one call to the next and never exceeds len(triggers), and
\* get_matched_playbook_info resolves it to a state label of its playbook.
C4_StateIndexMonotoneBounded ==
    /\ [](\A o \in DOMAIN active_scenarios :
            LET pb == playbooks[active_scenarios[o].playbook]
            IN  /\ StateIndex(o) \in 0..Len(pb.triggers)
                /\ \E k \in 1..Len(pb.states) : StateLabel(o) = pb.states[k])
    /\ [][\A o \in DOMAIN active_scenarios :
            /\ o \in DOMAIN active_scenarios'
            /\ active_scenarios'[o].playbook = active_scenarios[o].playbook
            /\ active_scenarios'[o].state_index >= active_scenarios[o].state_index]_vars

\* a scenario that reached the last state and was processed again afterwards
C4_Witness ==
    /\ sim_index = Len(simulation_api_feed)
    /\ n_frames >= 1
    /\ outcome = "returned"
    /\ HasScenario(101)
    /\ StateIndex(101) = Len(playbooks.VBIED_DROPOFF.triggers)

\* C5: linked_obj_id of a scenario is written only in the call in which the
\* scenario goes from STOPPED_IN_ANOMALOUS_ZONE to DRIVER_EXIT, a new scenario
\* has none, and once written it keeps its value in every later call.
C5_LinkedWrittenOnce ==
    [][/\ \A o \in DOMAIN active_scenarios :
            LET before == active_scenarios[o]
                after == active_scenarios'[o]
            IN  /\ HasLink(before) =>
                      (HasLink(after) /\ after.linked_obj_id = before.linked_obj_id)
                /\ (~HasLink(before) /\ HasLink(after)) =>
                      (before.state_index = 1 /\ after.state_index = 2)
       /\ \A o \in (DOMAIN active_scenarios') \ (DOMAIN active_scenarios) :
            ~HasLink(active_scenarios'[o])]_vars

\* a linked scenario whose vehicle has another new pedestrian within 50 pixels
C5_Witness ==
    \E i \in 1..Len(tracked_objects) :
        LET o == tracked_objects[i].obj_id
            j == NewPedestrianNear(tracked_objects[i], tracked_objects)
        IN  /\ outcome = "returned"
            /\ HasScenario(o)
            /\ HasLink(active_scenarios[o])
            /\ j # 0
            /\ tracked_objects[j].obj_id # active_scenarios[o].linked_obj_id

\* C6: over any sequence of update_threat_probabilities calls a belief is
\* never lower after a call than before it, no entry of the table is removed,
\* and every belief lies between the prior 0.0001 and the cap 0.999.
C6_BeliefMonotoneBounded ==
    /\ [](\A i \in 1..Len(threat_probabilities) :
            /\ threat_probabilities[i].threats.VBIED_DROPOFF >= PRIOR_PROBABILITY
            /\ threat_probabilities[i].threats.VBIED_DROPOFF <= PROBABILITY_CAP)
    /\ [][\A o \in Keys(threat_probabilities) :
            /\ o \in Keys(threat_probabilities')
            /\ Belief(threat_probabilities', o) >= Belief(threat_probabilities, o)]_vars

\* an update that ran into the cap
C6_Witness ==
    /\ outcome = "updated"
    /\ \E i \in 1..Len(threat_probabilities) :
          threat_probabilities[i].threats.VBIED_DROPOFF = PROBABILITY_CAP

\* C7: the list get_prioritized_alerts returns holds exactly the (object,
\* threat kind) pairs whose belief is above the alert threshold, each once
\* and with its belief, ordered by probability descending, equal
\* probabilities in the order of the belief table.
C7_AlertsExactSortedStable ==
    outcome = "queried" =>
        /\ \A i \in 1..Len(alerts) :
              /\ alerts[i].obj_id \in Keys(threat_probabilities)
              /\ alerts[i].threat_type = "VBIED_DROPOFF"
              /\ alerts[i].probability = Belief(threat_probabilities, alerts[i].obj_id)
              /\ alerts[i].probability > ALERT_PROBABILITY_THRESHOLD
        /\ \A o \in Keys(threat_probabilities) :
              Belief(threat_probabilities, o) > ALERT_PROBABILITY_THRESHOLD
                  => o \in AlertIds
        /\ \A i, j \in 1..Len(alerts) :
              i < j =>
                  /\ alerts[i].obj_id # alerts[j].obj_id
                  /\ alerts[i].probability >= alerts[j].probability
                  /\ alerts[i].probability = alerts[j].probability =>
                        IndexOf(threat_probabilities, alerts[i].obj_id)
                            < IndexOf(threat_probabilities, alerts[j].obj_id)

\* two alerts of one probability, and a table with a belief below the threshold
C7_Witness ==
    /\ outcome = "queried"
    /\ Len(alerts) = 2
    /\ alerts[1].probability = alerts[2].probability
    /\ alerts[1].probability < PROBABILITY_CAP

\* C8: a call of get_prioritized_alerts leaves the belief table, the scenario
\* table and the track store as they are, and a second call without an update
\* in between returns the list the first one returned.
C8_GetAlertsPureRead ==
    [][outcome' = "queried" =>
          /\ threat_probabilities' = threat_probabilities
          /\ active_scenarios' = active_scenarios
          /\ tracked_objects' = tracked_objects
          /\ (outcome = "queried" => alerts' = alerts)]_vars

C8_Witness ==
    /\ outcome = "queried"
    /\ Len(alerts) = 2
    /\ alerts[1].probability > alerts[2].probability

\* C9 (as claimed): when a detection of a frame lacks a key, the frame is
\* still processed to the end, and every other detection of it that has its
\* keys is in its track with the frame's timestamp.
C9_MalformedDetectionSkipped ==
    (\E k \in 1..Len(last_frame.detections) : ~WellFormed(last_frame.detections[k])) =>
        /\ outcome = "returned"
        /\ \A k \in 1..Len(last_frame.detections) :
              LET det == last_frame.detections[k]
              IN  WellFormed(det) =>
                    /\ det.obj_id \in Keys(tracked_objects)
                    /\ \E m \in 1..Len(Lookup(tracked_objects, det.obj_id).history) :
                          Lookup(tracked_objects, det.obj_id).history[m]
                              = [pos |-> _get_center(det.bbox), time |-> last_frame.timestamp]

\* C10: a frame whose detections have their keys is processed to the end, and
\* the speed it computes for a track with fewer than two samples, or whose
\* last two samples are zero or a negative time apart, is 0, which counts as
\* stopped.
C10_DegenerateTimingSpeedZero ==
    /\ (\A k \in 1..Len(last_frame.detections) : WellFormed(last_frame.detections[k]))
          => outcome \in {"init", "returned"}
    /\ outcome = "returned" =>
          /\ DOMAIN context_speeds = Keys(tracked_objects)
          /\ \A i \in 1..Len(tracked_objects) :
                LET track == tracked_objects[i]
                IN  (Len(track.history) < 2 \/ Elapsed(track) <= 0) =>
                        /\ context_speeds[track.obj_id] = ZeroSpeed
                        /\ SpeedBelow(context_speeds[track.obj_id], STOP_SPEED_THRESHOLD_MPS)

\* a frame out of order: the last two samples of a track are a negative time apart
C10_Witness ==
    /\ outcome = "returned"
    /\ \E i \in 1..Len(tracked_objects) :
          /\ Len(tracked_objects[i].history) >= 2
          /\ Elapsed(tracked_objects[i]) < 0
          /\ LastPos(tracked_objects[i])
               # tracked_objects[i].history[Len(tracked_objects[i].history) - 1].pos

\* C11: an object whose label is not van, truck or car never has a scenario
\* (get_matched_playbook_info gives None for it), a call raises only on a
\* detection that lacks a key, and an object gets its scenario only in a
\* call that returns, in which its label is applicable and its anomaly score
\* is above the anomaly threshold.
C11_ScenarioOnlyForAnomalousVehicle ==
    /\ [](/\ \A i \in 1..Len(tracked_objects) :
               tracked_objects[i].label \notin ApplicableLabels =>
                   /\ ~HasScenario(tracked_objects[i].obj_id)
                   /\ get_matched_playbook_info(tracked_objects[i].obj_id,
                                                active_scenarios) = None
          /\ outcome = "raised" =>
               \E k \in 1..Len(last_frame.detections) :
                   ~WellFormed(last_frame.detections[k]))
    /\ [][\A o \in (DOMAIN active_scenarios') \ (DOMAIN active_scenarios) :
            /\ outcome' = "returned"
            /\ o \in Keys(tracked_objects')
            /\ Lookup(tracked_objects', o).label \in ApplicableLabels
            /\ AnomalyScoreIn(context_speeds', Lookup(tracked_objects', o))
                  > ANOMALY_THRESHOLD]_vars

\* a frame that scored a pedestrian above the threshold, next to a vehicle
\* that has its scenario
C11_Witness ==
    /\ outcome = "returned"
    /\ \E i \in 1..Len(tracked_objects) :
          /\ tracked_objects[i].label = "pedestrian"
          /\ tracked_objects[i].obj_id \in DetectedIds(last_frame)
          /\ AnomalyScoreIn(context_speeds, tracked_objects[i]) > ANOMALY_THRESHOLD
          /\ ~HasScenario(tracked_objects[i].obj_id)
    /\ \E i \in 1..Len(tracked_objects) :
          /\ tracked_objects[i].label \in ApplicableLabels
          /\ HasScenario(tracked_objects[i].obj_id)

\* C12: for every position, inside or outside the road region and inside or
\* outside the stopping region, and for either value of is_stopped,
\* calculate_anomaly_score returns a value between 0 and 1 that is the larger
\* of the location sub-score (0.95 outside the road region, else 0) and the
\* stop sub-score (0.95 when stopped outside the stopping region, else 0);
\* when both are 0.95 the result is 0.95.
C12_AnomalyScoreIsMaximum ==
    direct_call.op = "calculate_anomaly_score" =>
        LET pos == LastPos(direct_call.track)
            location == IF InRoad(pos) THEN 0 ELSE 95
            stop == IF direct_call.is_stopped /\ ~InStopZone(pos) THEN 95 ELSE 0
        IN  /\ direct_call.result \in 0..100
            /\ direct_call.result \in {location, stop}
            /\ direct_call.result >= location
            /\ direct_call.result >= stop
            /\ (location = 95 /\ stop = 95) => direct_call.result = 95

\* a stopped object outside the road region: both sub-scores are 0.95
C12_Witness ==
    /\ direct_call.op = "calculate_anomaly_score"
    /\ direct_call.is_stopped
    /\ ~InRoad(LastPos(direct_call.track))
    /\ ~InStopZone(LastPos(direct_call.track))
    /\ direct_call.result = 95

\* C13: in one call of process_frame_data the state_index of a scenario that
\* existed before the call goes up by 0 or by 1, and a scenario created in
\* the call starts at index 0 and takes at most that one step (it ends the
\* call at APPROACH or STOPPED_IN_ANOMALOUS_ZONE, without a linked object),
\* also when a new pedestrian is within 50 pixels in that call.
C13_AtMostOneStepPerFrame ==
    [][/\ \A o \in DOMAIN active_scenarios :
            active_scenarios'[o].state_index - active_scenarios[o].state_index \in {0, 1}
       /\ \A o \in (DOMAIN active_scenarios') \ (DOMAIN active_scenarios) :
            /\ active_scenarios'[o].state_index \in {0, 1}
            /\ active_scenarios'[o].state_index = 1 =>
                  IsStoppedIn(context_speeds', Lookup(tracked_objects', o))
            /\ ~HasLink(active_scenarios'[o])]_vars

\* the first frame of a vehicle that stops off the road with a new pedestrian
\* within 50 pixels: the triggers of two states hold at once
C13_Witness ==
    /\ outcome = "returned"
    /\ Len(last_frame.detections) = 2
    /\ \E i \in 1..Len(tracked_objects) :
          /\ Len(tracked_objects[i].history) = 1
          /\ HasScenario(tracked_objects[i].obj_id)
          /\ StateIndex(tracked_objects[i].obj_id) = 1
          /\ NewPedestrianNear(tracked_objects[i], tracked_objects) # 0

\* C14 (as claimed): a scenario goes from STOPPED_IN_ANOMALOUS_ZONE to
\* DRIVER_EXIT in a call only if some pedestrian is detected in that call's
\* frame for the first time ever (its one sample is this frame's) and is
\* within 50 pixels of the vehicle's current position, and linked_obj_id is
\* that pedestrian's id.
C14_DriverExitNeedsFirstSeenPedestrian ==
    [][\A o \in DOMAIN active_scenarios :
          (active_scenarios[o].state_index = 1 /\ active_scenarios'[o].state_index = 2) =>
              \E i \in 1..Len(tracked_objects') :
                  LET ped == tracked_objects'[i]
                  IN  /\ ped.label = "pedestrian"
                      /\ Len(ped.history) = 1
                      /\ ped.obj_id \in DetectedIds(last_frame')
                      /\ ped.obj_id \notin Keys(tracked_objects)
                      /\ Dist2(LastPos(Lookup(tracked_objects', o)), LastPos(ped))
                            < DRIVER_EXIT_PIXELS * DRIVER_EXIT_PIXELS
                      /\ HasLink(active_scenarios'[o])
                      /\ active_scenarios'[o].linked_obj_id = ped.obj_id]_vars

\* C15: in a call that returns, a scenario at DRIVER_EXIT goes to SEPARATION
\* exactly when its linked pedestrian is in the track store with two or more
\* samples, is farther from the vehicle's current position at its current
\* sample than at the one before, and moved between the two at more than
\* 0.5 m/s (more than 5 pixels per second); in every other case the
\* scenario stays at DRIVER_EXIT with its link, and a call that raises
\* leaves the scenario as it was.
C15_SeparationNeedsDepartingPedestrian ==
    [][\A o \in DOMAIN active_scenarios :
          active_scenarios[o].state_index = 2 =>
              /\ outcome' = "raised" => active_scenarios'[o] = active_scenarios[o]
              /\ outcome' = "returned" =>
                    LET vehicle_pos == LastPos(Lookup(tracked_objects', o))
                        ped_id == active_scenarios[o].linked_obj_id
                        departing ==
                            /\ HasLink(active_scenarios[o])
                            /\ ped_id \in Keys(tracked_objects')
                            /\ LET h == Lookup(tracked_objects', ped_id).history
                                    n == Len(h)
                                IN  /\ n >= 2
                                    /\ Dist2(vehicle_pos, h[n].pos) > Dist2(vehicle_pos, h[n - 1].pos)
                                    /\ h[n].time - h[n - 1].time > 0
                                    /\ Dist2(h[n].pos, h[n - 1].pos)
                                          > 25 * (h[n].time - h[n - 1].time)
                                               * (h[n].time - h[n - 1].time)
                    IN  /\ active_scenarios'[o].state_index = IF departing THEN 3 ELSE 2
                        /\ HasLink(active_scenarios'[o])
                        /\ active_scenarios'[o].linked_obj_id = ped_id]_vars

\* a scenario left at DRIVER_EXIT by a frame out of order: the linked
\* pedestrian is farther away than before, but its speed is 0
C15_Witness ==
    /\ outcome = "returned"
    /\ \E o \in DOMAIN active_scenarios :
          /\ StateIndex(o) = 2
          /\ HasLink(active_scenarios[o])
          /\ active_scenarios[o].linked_obj_id \in DetectedIds(last_frame)
          /\ LET ped == Lookup(tracked_objects, active_scenarios[o].linked_obj_id)
                 vehicle_pos == LastPos(Lookup(tracked_objects, o))
             IN  /\ Len(ped.history) >= 2
                 /\ Elapsed(ped) <= 0
                 /\ Dist2(vehicle_pos, LastPos(ped))
                       > Dist2(vehicle_pos, ped.history[Len(ped.history) - 1].pos)

\* C16: a call of update_threat_probabilities sets the object's belief to
\* min(0.999, belief * m), the belief of a new object being the prior; with
\* a playbook state in the evidence m is 10 for STOPPED_IN_ANOMALOUS_ZONE, 50
\* for DRIVER_EXIT, 100 for SEPARATION and 1 for any other state, whatever
\* the anomaly score; without one m is 3 when the anomaly score is above 0.7
\* and 1 otherwise.  The other entries of the table are left alone.
C16_BeliefTimesStateLikelihood ==
    [][direct_call'.op = "update_threat_probabilities" =>
          LET o == direct_call'.obj_id
              e == direct_call'.evidence
              m == IF e.playbook_info # None
                   THEN CASE e.playbook_info.state = "STOPPED_IN_ANOMALOUS_ZONE" -> 10
                          [] e.playbook_info.state = "DRIVER_EXIT" -> 50
                          [] e.playbook_info.state = "SEPARATION" -> 100
                          [] OTHER -> 1
                   ELSE IF e.anomaly_score > 70 THEN 3 ELSE 1
              before == IF o \in Keys(threat_probabilities)
                        THEN Belief(threat_probabilities, o) ELSE 1
          IN  /\ o \in Keys(threat_probabilities')
              /\ Belief(threat_probabilities', o) = Min2(9990, before * m)
              /\ \A i \in 1..Len(threat_probabilities) :
                    /\ threat_probabilities'[i].obj_id = threat_probabilities[i].obj_id
                    /\ threat_probabilities[i].obj_id # o =>
                          threat_probabilities'[i] = threat_probabilities[i]]_vars

\* a playbook state together with a high anomaly score, below the cap
C16_Witness ==
    /\ direct_call.op = "update_threat_probabilities"
    /\ direct_call.evidence.anomaly_score > ANOMALY_THRESHOLD
    /\ direct_call.evidence.playbook_info # None
    /\ direct_call.evidence.playbook_info.state = "DRIVER_EXIT"
    /\ Belief(threat_probabilities, direct_call.obj_id) = 500

\* C17: in a call that returns, the loop over the tracks works on the track
\* store and the speeds as they stand after _update_tracks, and taking the
\* tracks in any other order gives the scenario table and the beliefs that
\* the call left.
C17_OrderOfTracksIrrelevant ==
    [][outcome' = "returned" =>
          \A order \in Orders(Len(tracked_objects')) :
              \E st \in { ProcessObjectsInOrder(order, tracked_objects', context_speeds',
                              [scenarios |-> active_scenarios,
                               tp |-> threat_probabilities]) } :
                  /\ st.scenarios = active_scenarios'
                  /\ Keys(st.tp) = Keys(threat_probabilities')
                  /\ \A o \in Keys(st.tp) :
                        Lookup(st.tp, o).threats = Lookup(threat_probabilities', o).threats]_vars

\* a frame in which a vehicle's scenario took a pedestrian as its linked
\* object while a third object was tracked
C17_Witness ==
    /\ outcome = "returned"
    /\ Len(tracked_objects) >= 3
    /\ \E o \in DOMAIN active_scenarios :
          /\ HasLink(active_scenarios[o])
          /\ StateIndex(o) = 2
          /\ Len(Lookup(tracked_objects, active_scenarios[o].linked_obj_id).history) = 1
          /\ IndexOf(tracked_objects, active_scenarios[o].linked_obj_id)
                < IndexOf(tracked_objects, o)

\* C18: every (object, threat kind) pair of the alert list a call returned
\* is in the alert list of every later call that returns, whatever its frame
\* holds, and with a probability that is not lower.
C18_AlertsNeverRetracted ==
    [][outcome' = "returned" =>
          /\ AlertPairs(alerts) \subseteq AlertPairs(alerts')
          /\ \A i \in 1..Len(alerts), j \in 1..Len(alerts') :
                (alerts[i].obj_id = alerts'[j].obj_id
                    /\ alerts[i].threat_type = alerts'[j].threat_type)
                  => alerts'[j].probability >= alerts[i].probability]_vars

\* the alert of the simulation's vehicle in a later frame that does not
\* detect the vehicle
C18_Witness ==
    /\ sim_index = Len(simulation_api_feed)
    /\ n_frames >= 1
    /\ outcome = "returned"
    /\ 101 \notin DetectedIds(last_frame)
    /\ <<101, "VBIED_DROPOFF">> \in AlertPairs(alerts)

\* C19: after every call that returns, the belief table has an entry for
\* exactly the objects of the track store, and an object the frame did not
\* detect was processed all the same: its track is as it was, its speed is
\* the one computed before, the playbook step was taken from its last
\* position (a scenario at STOPPED_IN_ANOMALOUS_ZONE with a one-sample
\* pedestrian within 50 pixels went to DRIVER_EXIT) and its belief was
\* multiplied by the likelihood of its scenario's state (by 3 or 1, on its
\* anomaly score, without a scenario), up to the cap.
C19_UndetectedObjectsStillProcessed ==
    [][outcome' = "returned" =>
          /\ Keys(threat_probabilities') = Keys(tracked_objects')
          /\ \A i \in 1..Len(tracked_objects') :
                LET track == tracked_objects'[i]
                    o == track.obj_id
                    before == IF o \in Keys(threat_probabilities)
                              THEN Belief(threat_probabilities, o) ELSE 1
                    m == IF o \in DOMAIN active_scenarios'
                         THEN CASE active_scenarios'[o].state_index = 1 -> 10
                                [] active_scenarios'[o].state_index = 2 -> 50
                                [] active_scenarios'[o].state_index = 3 -> 100
                                [] OTHER -> 1
                         ELSE IF AnomalyScoreIn(context_speeds', track) > 70 THEN 3 ELSE 1
                IN  o \notin DetectedIds(last_frame') =>
                      /\ o \in Keys(tracked_objects)
                      /\ Lookup(tracked_objects, o) = track
                      /\ outcome = "returned" => context_speeds'[o] = context_speeds[o]
                      /\ (/\ o \in DOMAIN active_scenarios
                          /\ active_scenarios[o].state_index = 1
                          /\ NewPedestrianNear(track, tracked_objects') # 0)
                            => active_scenarios'[o].state_index = 2
                      /\ Belief(threat_probabilities', o) = Min2(9990, before * m)]_vars

\* a vehicle detected once, whose belief grew in a frame that did not detect it
C19_Witness ==
    /\ outcome = "returned"
    /\ \E i \in 1..Len(tracked_objects) :
          /\ tracked_objects[i].label \in ApplicableLabels
          /\ tracked_objects[i].obj_id \notin DetectedIds(last_frame)
          /\ Len(tracked_objects[i].history) = 1
          /\ HasScenario(tracked_objects[i].obj_id)
          /\ Belief(threat_probabilities, tracked_objects[i].obj_id) \in 100..9989

\* C20: in every reachable state a scenario has a linked_obj_id exactly when
\* its state_index is 2 or more (DRIVER_EXIT or SEPARATION), and the linked
\* id is that of a track of the track store whose label is pedestrian, so
\* not the scenario's own vehicle.
C20_LinkIffDriverExitOrLater ==
    \A o \in DOMAIN active_scenarios :
        /\ HasLink(active_scenarios[o]) <=> StateIndex(o) >= 2
        /\ HasLink(active_scenarios[o]) =>
              /\ active_scenarios[o].linked_obj_id \in Keys(tracked_objects)
              /\ Lookup(tracked_objects, active_scenarios[o].linked_obj_id).label
                    = "pedestrian"
              /\ active_scenarios[o].linked_obj_id # o
              /\ StateLabel(o) \in {"DRIVER_EXIT", "SEPARATION"}

\* two scenarios at once: one with its link at DRIVER_EXIT, one without
C20_Witness ==
    \E o, v \in DOMAIN active_scenarios :
        /\ HasLink(active_scenarios[o])
        /\ StateIndex(o) = 2
        /\ ~HasLink(active_scenarios[v])
        /\ StateIndex(v) = 1

====
